---- MODULE Spec2Model ----
(***************************************************************************)
(* Model of src/repository.rs: the Contact repository over one             *)
(* tokio_postgres connection.  The state is the repository instance, the   *)
(* spawned connection-driving task, the `contact` table the statements     *)
(* act on, the statements in flight on the single connection, and each     *)
(* caller's position in its get/save call.                                 *)
(***************************************************************************)
EXTENDS Integers, Sequences, FiniteSets, TLC

\* ------------------------------------------------------------------ bounds
\* Concurrent callers of the one repository instance.
NumCallers == 2
\* Calls (get or save) issued on the instance in one run.
MaxCalls == 3

\* The ids the tests use: get(12), and the contact saved with id 13.
TestGetId == 12
TestSaveId == 13

Callers == 1..NumCallers
Ids == {TestGetId, TestSaveId}
\* "first" is the test contact's first name; "other" stands for any other.
Firstnames == {"first", "other"}

\* ------------------------------------------------------------ Contact
Contact(id, firstname, lastname, phone, email) ==
    [id |-> id, firstname |-> firstname, lastname |-> lastname,
     phone |-> phone, email |-> email]

NoContact == Contact(0, "", "", "", "")

\* The Contact values callers pass to save: the test's contact, the same
\* with another first name, and the same with the other id.
Contacts ==
    {Contact(TestSaveId, f, "second", "0123456789", "e@mail.com") : f \in Firstnames}
        \cup {Contact(TestGetId, "first", "second", "0123456789", "e@mail.com")}

\* ------------------------------------------------------------ Error
\* PgError values the driver produces here: the connection is closed, or the
\* primary key of `contact` is violated.
PgClosed == "closed"
PgUniqueViolation == "unique_violation"

NoResult == [tag |-> "None", contact |-> NoContact, n |-> 0, err |-> "", msg |-> <<>>]

OkContact(c) == [NoResult EXCEPT !.tag = "Ok", !.contact = c]
OkCount(n) == [NoResult EXCEPT !.tag = "Ok", !.n = n]

\* impl From<PgError> for Error
FromPgError(e) == [NoResult EXCEPT !.tag = "Db", !.err = e]

\* impl From<String> for Error
FromString(s) == [NoResult EXCEPT !.tag = "Intern", !.msg = s]

\* ------------------------------------------------------------ format!
Digit(d) == <<"0", "1", "2", "3", "4", "5", "6", "7", "8", "9">>[d + 1]

RECURSIVE DecimalNat(_)
DecimalNat(n) ==
    IF n < 10 THEN <<Digit(n)>> ELSE DecimalNat(n \div 10) \o <<Digit(n % 10)>>

\* Display of an i32: a minus sign for a negative number, then its digits.
DisplayI32(n) == IF n < 0 THEN <<"-">> \o DecimalNat(-n) ELSE DecimalNat(n)

\* Mutant: the message formats the number of rows found, not the id.
NoRecordMessageRows(id) == <<"no record with id ">> \o DisplayI32(0)

\* format!("no record with id {}", id), as the literal piece and the
\* characters of the formatted argument.
NoRecordMessage(id) == <<"no record with id ">> \o DisplayI32(id)

\* ------------------------------------------------------------ statements
\* INSERT INTO contact (id, firstname, lastname, phone, email) VALUES ($1..$5)
InsertColumns == <<"id", "firstname", "lastname", "phone", "email">>

\* &[&contact.id, &contact.firstname, &contact.lastname, &contact.phone, &contact.email]
InsertParams(contact) ==
    <<contact.id, contact.firstname, contact.lastname, contact.phone, contact.email>>

\* SELECT id, firstname, lastname, phone, email FROM contact WHERE id=$1
SelectColumns == <<"id", "firstname", "lastname", "phone", "email">>

ColumnIndex(cols, name) == CHOOSE i \in 1..Len(cols) : cols[i] = name

\* The table row an insert with these parameters stores: column k of the
\* column list gets parameter $k.
InsertedRow(params) ==
    [col \in {InsertColumns[i] : i \in 1..Len(InsertColumns)} |->
        params[ColumnIndex(InsertColumns, col)]]

\* The result row of the select for a table row: its columns in projection order.
Project(row) == [i \in 1..Len(SelectColumns) |-> row[SelectColumns[i]]]

NoResponse == [kind |-> "none", rows |-> <<>>, n |-> 0, err |-> ""]
RowsResponse(rows) == [NoResponse EXCEPT !.kind = "rows", !.rows = rows]
CountResponse(n) == [NoResponse EXCEPT !.kind = "count", !.n = n]
ErrorResponse(e) == [NoResponse EXCEPT !.kind = "error", !.err = e]

NoCall == [op |-> "none", id |-> 0, contact |-> NoContact, pre |-> "none",
           known |-> NoContact, again |-> FALSE, conn |-> "none", attempts |-> 0]

VARIABLES
    repo,       \* "none" before new returns, "live" once Self { client } exists
    aborted,    \* the process has panicked
    connTask,   \* the spawned connection task: "none", "running", "terminated"
    log,        \* lines written by eprintln!("connection error: ...")
    store,      \* the contact table: id -> row, for the ids that have a row
    queue,      \* statements sent on the connection, not yet executed
    executing,  \* statements the server is executing
    pc,         \* each caller: "idle", "awaiting", "done"
    call,       \* each caller's current call, and what held when it started
    resp,       \* each caller's response from the connection, if it has come
    result,     \* each caller's returned Result, while pc = "done"
    issued      \* number of calls issued so far

vars == <<repo, aborted, connTask, log, store, queue, executing, pc, call,
          resp, result, issued>>

Init ==
    /\ repo = "none"
    /\ aborted = FALSE
    /\ connTask = "none"
    /\ log = 0
    /\ store = <<>>
    /\ queue = <<>>
    /\ executing = {}
    /\ pc = [c \in Callers |-> "idle"]
    /\ call = [c \in Callers |-> NoCall]
    /\ resp = [c \in Callers |-> NoResponse]
    /\ result = [c \in Callers |-> NoResult]
    /\ issued = 0

\* ------------------------------------------------------------ the server
\* The rows the select returns on table st: the rows whose id is $1.
SelectExec(st, id) ==
    IF id \in DOMAIN st THEN RowsResponse(<<Project(st[id])>>) ELSE RowsResponse(<<>>)

\* Mutant: INSERT ... ON CONFLICT (id) DO UPDATE: the row is written whether
\* or not the id has one.
InsertExecUpsert(st, contact) ==
    LET row == InsertedRow(InsertParams(contact)) IN
    [store |-> [i \in DOMAIN st \cup {row.id} |-> IF i = row.id THEN row ELSE st[i]],
     response |-> CountResponse(1)]

\* The insert on table st: id is the primary key, so a row with that id makes
\* the statement fail and leaves the table as it is; otherwise the row is
\* added and the server reports the number of rows added.
InsertExec(st, contact) ==
    LET row == InsertedRow(InsertParams(contact)) IN
    IF row.id \in DOMAIN st
    THEN [store |-> st, response |-> ErrorResponse(PgUniqueViolation)]
    ELSE LET st2 == [i \in DOMAIN st \cup {row.id} |->
                        IF i = row.id THEN row ELSE st[i]] IN
         [store |-> st2,
          response |-> CountResponse(Cardinality(DOMAIN st2) - Cardinality(DOMAIN st))]

\* ------------------------------------------------------------ get, save
\* Mutant: query_one in place of query: no row is a driver error.
GetResultQueryOne(id, response) ==
    IF response.kind = "error" THEN FromPgError(response.err)
    ELSE IF Len(response.rows) = 0 THEN FromPgError("row_count")
    ELSE LET row == response.rows[1] IN
         OkContact(Contact(row[1], row[2], row[3], row[4], row[5]))

\* Mutant: firstname and lastname read from each other's column.
GetResultSwapped(id, response) ==
    IF response.kind = "error" THEN FromPgError(response.err)
    ELSE IF Len(response.rows) = 0 THEN FromString(NoRecordMessage(id))
    ELSE LET row == response.rows[1] IN
         OkContact(Contact(row[1], row[3], row[2], row[4], row[5]))

\* The body of get after the await: `?` returns a driver error as Error::Db,
\* an empty result is Error::Intern with the message, and otherwise rows[0]
\* is mapped by position.
GetResult(id, response) ==
    IF response.kind = "error" THEN FromPgError(response.err)
    ELSE IF Len(response.rows) = 0 THEN FromString(NoRecordMessage(id))
    ELSE LET row == response.rows[1] IN
         OkContact(Contact(row[1], row[2], row[3], row[4], row[5]))

\* Mutant: the driver error is swallowed, unwrap_or(0) in place of `?`.
SaveResultSwallowed(response) ==
    IF response.kind = "error" THEN OkCount(0)
    ELSE OkCount(response.n)

\* The body of save after the await: Ok(count), or the driver error as Error::Db.
SaveResult(response) ==
    IF response.kind = "error" THEN FromPgError(response.err)
    ELSE OkCount(response.n)

\* A save of id has returned Ok to caller d, who still holds that result.
HoldsSaved(d, id) ==
    /\ pc[d] = "done"
    /\ call[d].op = "insert"
    /\ call[d].id = id
    /\ result[d].tag = "Ok"

\* The contact a save of id has returned Ok for, when a caller holds such a
\* result as the call starts; NoContact otherwise.
KnownOf(id) ==
    IF \E d \in Callers : HoldsSaved(d, id)
    THEN call[CHOOSE d \in Callers : HoldsSaved(d, id)].contact
    ELSE NoContact

\* Caller c's last call was a get of id that found no record.
MissedBy(c, id) ==
    /\ pc[c] = "done"
    /\ call[c].op = "select"
    /\ call[c].id = id
    /\ result[c].tag = "Intern"

Request(c, op, id, contact) == [caller |-> c, op |-> op, id |-> id, contact |-> contact]

\* Mutant: a call on a terminated connection reconnects and sends its statement.
IssueReconnect(c, op, id, contact) ==
    /\ repo = "live"
    /\ ~aborted
    /\ pc[c] \in {"idle", "done"}
    /\ issued < MaxCalls
    /\ issued' = issued + 1
    /\ call' = [call EXCEPT ![c] =
                  [op |-> op, id |-> id, contact |-> contact,
                   pre |-> IF op = "insert" /\ id \in DOMAIN store
                           THEN "present" ELSE "absent",
                   known |-> IF op = "select" THEN KnownOf(id) ELSE NoContact,
                   again |-> op = "select" /\ MissedBy(c, id),
                   conn |-> connTask, attempts |-> 1]]
    /\ connTask' = "running"
    /\ queue' = Append(queue, Request(c, op, id, contact))
    /\ pc' = [pc EXCEPT ![c] = "awaiting"]
    /\ result' = [result EXCEPT ![c] = NoResult]
    /\ UNCHANGED <<repo, aborted, log, store, executing, resp>>

\* client.query / client.execute is called: on a running connection the
\* statement is sent and the caller awaits; on a closed one the driver
\* returns its error at once.  The call record keeps what held when the call
\* started: whether id had a row (pre), the contact a save of id had returned
\* Ok for (known), whether this caller's last get of id found nothing (again),
\* and the connection task's state (conn).
Issue(c, op, id, contact) ==
    /\ repo = "live"
    /\ ~aborted
    /\ pc[c] \in {"idle", "done"}
    /\ issued < MaxCalls
    /\ issued' = issued + 1
    /\ call' = [call EXCEPT ![c] =
                  [op |-> op, id |-> id, contact |-> contact,
                   pre |-> IF op = "insert" /\ id \in DOMAIN store
                           THEN "present" ELSE "absent",
                   known |-> IF op = "select" THEN KnownOf(id) ELSE NoContact,
                   again |-> op = "select" /\ MissedBy(c, id),
                   conn |-> connTask, attempts |-> 1]]
    /\ IF connTask = "running"
       THEN /\ queue' = Append(queue, Request(c, op, id, contact))
            /\ pc' = [pc EXCEPT ![c] = "awaiting"]
            /\ result' = [result EXCEPT ![c] = NoResult]
       ELSE /\ queue' = queue
            /\ pc' = [pc EXCEPT ![c] = "done"]
            /\ result' = [result EXCEPT ![c] =
                            IF op = "select"
                            THEN GetResult(id, ErrorResponse(PgClosed))
                            ELSE SaveResult(ErrorResponse(PgClosed))]
    /\ UNCHANGED <<repo, aborted, connTask, log, store, executing, resp>>

Get(c, id) == Issue(c, "select", id, NoContact)

Save(c, contact) == Issue(c, "insert", contact.id, contact)

\* The response the await yields: the one that came, or the driver's closed
\* error when the connection task ended without one.
Awaited(c) == IF resp[c].kind # "none" THEN resp[c] ELSE ErrorResponse(PgClosed)

\* Mutant: rows[0] is read without the test of rows.len().
GetPanicsUnchecked(response) ==
    /\ response.kind = "rows"
    /\ \/ Len(response.rows) = 0
       \/ \E k \in 0..4 : k + 1 > Len(response.rows[1])

\* rows[0].get(k) panics when the row has no column k; rows[0] is only
\* reached when rows is not empty.
GetPanics(response) ==
    /\ response.kind = "rows"
    /\ Len(response.rows) # 0
    /\ \E k \in 0..4 : k + 1 > Len(response.rows[1])

\* Mutant: a get of an id this caller's last get did not find answers from
\* that earlier result.
GetResumeCached(c) ==
    /\ ~aborted
    /\ pc[c] = "awaiting"
    /\ call[c].op = "select"
    /\ resp[c].kind # "none" \/ connTask = "terminated"
    /\ result' = [result EXCEPT ![c] =
                    IF call[c].again THEN FromString(NoRecordMessage(call[c].id))
                    ELSE GetResult(call[c].id, Awaited(c))]
    /\ pc' = [pc EXCEPT ![c] = "done"]
    /\ resp' = [resp EXCEPT ![c] = NoResponse]
    /\ UNCHANGED <<repo, aborted, connTask, log, store, queue, executing, call, issued>>

GetResume(c) ==
    /\ ~aborted
    /\ pc[c] = "awaiting"
    /\ call[c].op = "select"
    /\ resp[c].kind # "none" \/ connTask = "terminated"
    /\ IF GetPanics(Awaited(c))
       THEN /\ aborted' = TRUE
            /\ UNCHANGED <<result, pc, resp>>
       ELSE /\ result' = [result EXCEPT ![c] = GetResult(call[c].id, Awaited(c))]
            /\ pc' = [pc EXCEPT ![c] = "done"]
            /\ resp' = [resp EXCEPT ![c] = NoResponse]
            /\ aborted' = aborted
    /\ UNCHANGED <<repo, connTask, log, store, queue, executing, call, issued>>

SaveResume(c) ==
    /\ ~aborted
    /\ pc[c] = "awaiting"
    /\ call[c].op = "insert"
    /\ resp[c].kind # "none" \/ connTask = "terminated"
    /\ result' = [result EXCEPT ![c] = SaveResult(Awaited(c))]
    /\ pc' = [pc EXCEPT ![c] = "done"]
    /\ resp' = [resp EXCEPT ![c] = NoResponse]
    /\ UNCHANGED <<repo, aborted, connTask, log, store, queue, executing, call, issued>>

\* ------------------------------------------------------------ new
\* tokio_postgres::connect(dsn, NoTls).await.unwrap(): a failed connect
\* panics before the task is spawned and before Self exists.
New(connected) ==
    /\ repo = "none"
    /\ ~aborted
    /\ IF connected
       THEN /\ connTask' = "running"
            /\ repo' = "live"
            /\ aborted' = aborted
       ELSE /\ aborted' = TRUE
            /\ UNCHANGED <<connTask, repo>>
    /\ UNCHANGED <<log, store, queue, executing, pc, call, resp, result, issued>>

\* ------------------------------------------------------------ the connection
\* Mutant: the task drops the error, `let _ = connection.await;`.
ConnectionTerminateSilent ==
    /\ ~aborted
    /\ connTask = "running"
    /\ connTask' = "terminated"
    /\ UNCHANGED <<repo, aborted, log, store, queue, executing, pc, call, resp, result, issued>>

\* The spawned task: connection.await ends with an error, which is printed;
\* nothing else is done with it.
ConnectionTerminate ==
    /\ ~aborted
    /\ connTask = "running"
    /\ connTask' = "terminated"
    /\ log' = log + 1
    /\ UNCHANGED <<repo, aborted, store, queue, executing, pc, call, resp, result, issued>>

\* Mutant: statements go to the server over several connections, each
\* executed as soon as it is sent.
ServerBeginParallel ==
    /\ queue # <<>>
    /\ executing' = executing \cup {Head(queue)}
    /\ queue' = Tail(queue)
    /\ UNCHANGED <<repo, aborted, connTask, log, store, pc, call, resp, result, issued>>

\* The one connection hands the server its next statement when the server
\* is executing none.
ServerBegin ==
    /\ queue # <<>>
    /\ executing = {}
    /\ executing' = {Head(queue)}
    /\ queue' = Tail(queue)
    /\ UNCHANGED <<repo, aborted, connTask, log, store, pc, call, resp, result, issued>>

\* The server completes a statement; its response reaches the caller when
\* the connection task is still running.
ServerFinish ==
    \E r \in executing :
        LET out == IF r.op = "select"
                   THEN [store |-> store, response |-> SelectExec(store, r.id)]
                   ELSE InsertExec(store, r.contact) IN
        /\ executing' = executing \ {r}
        /\ store' = out.store
        /\ resp' = IF connTask = "running"
                   THEN [resp EXCEPT ![r.caller] = out.response]
                   ELSE resp
        /\ UNCHANGED <<repo, aborted, connTask, log, queue, pc, call, result, issued>>

Next ==
    \/ \E connected \in BOOLEAN : New(connected)
    \/ \E c \in Callers, id \in Ids : Get(c, id)
    \/ \E c \in Callers, contact \in Contacts : Save(c, contact)
    \/ \E c \in Callers : GetResume(c)
    \/ \E c \in Callers : SaveResume(c)
    \/ ConnectionTerminate
    \/ ServerBegin
    \/ ServerFinish

Spec == Init /\ [][Next]_vars

\* ------------------------------------------------------------ properties
Done(c) == pc[c] = "done"
DoneGet(c) == Done(c) /\ call[c].op = "select"
DoneSave(c) == Done(c) /\ call[c].op = "insert"

\* The Contact a table row stands for, column by column.
RowContact(row) ==
    Contact(row.id, row.firstname, row.lastname, row.phone, row.email)

\* The table holds contact e under e's id.
Stored(e) == e.id \in DOMAIN store /\ RowContact(store[e.id]) = e

DigitValue(ch) == CHOOSE d \in 0..9 : Digit(d) = ch

\* The number a sequence of decimal digit characters denotes.
RECURSIVE ParseDecimal(_)
ParseDecimal(chs) ==
    IF Len(chs) = 0 THEN 0
    ELSE 10 * ParseDecimal(SubSeq(chs, 1, Len(chs) - 1)) + DigitValue(chs[Len(chs)])

\* C1 as stated: whenever a get(id) has returned and id has no stored row,
\* the returned value is the Intern (not found) error, in every state.
C1_NotFoundAlways ==
    \A c \in Callers :
        (DoneGet(c) /\ call[c].id \notin DOMAIN store) => result[c].tag = "Intern"

\* C1 amended: a get(id) of an id with no stored row returns the Intern (not
\* found) error, and can return a Db error only once the connection task has
\* terminated, the error then being the driver's closed-connection error.
C1_NotFoundWhileConnected ==
    \A c \in Callers :
        (DoneGet(c) /\ call[c].id \notin DOMAIN store) =>
            \/ result[c].tag = "Intern"
            \/ /\ result[c].tag = "Db"
               /\ result[c].err = PgClosed
               /\ connTask = "terminated"

C1_Witness ==
    \E c \in Callers :
        /\ DoneGet(c)
        /\ call[c].id \notin DOMAIN store
        /\ connTask = "running"
        /\ result[c].tag = "Intern"

\* C2 as stated: a get(e.id) started after save(e) returned Ok returns
\* Ok with a Contact equal to e in all five fields.
C2_RoundTripAlways ==
    \A c \in Callers :
        (DoneGet(c) /\ call[c].known # NoContact) =>
            /\ result[c].tag = "Ok"
            /\ result[c].contact = call[c].known

\* C2 amended: a get(e.id) started after save(e) returned Ok returns Ok with
\* a Contact equal to e in all five fields, or, once the connection task has
\* terminated, the Db closed-connection error; it never returns not found
\* or another Contact.
C2_RoundTripWhileConnected ==
    \A c \in Callers :
        (DoneGet(c) /\ call[c].known # NoContact) =>
            \/ /\ result[c].tag = "Ok"
               /\ result[c].contact.id = call[c].known.id
               /\ result[c].contact.firstname = call[c].known.firstname
               /\ result[c].contact.lastname = call[c].known.lastname
               /\ result[c].contact.phone = call[c].known.phone
               /\ result[c].contact.email = call[c].known.email
            \/ /\ result[c].tag = "Db"
               /\ result[c].err = PgClosed
               /\ connTask = "terminated"

C2_Witness ==
    \E c \in Callers :
        /\ DoneGet(c)
        /\ call[c].known = Contact(TestSaveId, "first", "second", "0123456789", "e@mail.com")
        /\ result[c].tag = "Ok"
        /\ result[c].contact = call[c].known

\* A statement in execution is an insert of an id that already has a row.
DuplicateInsertExecuting ==
    \E r \in executing : r.op = "insert" /\ r.id \in DOMAIN store

\* C3: a save of an id that had a row when the call started returns a Db
\* error, and the insert of an id that has a row leaves the table exactly as
\* it was, whatever the other four fields of the second contact are.
C3_DuplicateSaveFails ==
    /\ [](\A c \in Callers :
            (DoneSave(c) /\ call[c].pre = "present") => result[c].tag = "Db")
    /\ [][DuplicateInsertExecuting => store' = store]_vars

C3_Witness ==
    \E c \in Callers :
        /\ DoneSave(c)
        /\ call[c].pre = "present"
        /\ result[c].tag = "Db"
        /\ result[c].err = PgUniqueViolation
        /\ store[call[c].id].firstname # call[c].contact.firstname

\* C4: a save that returned Ok returned the count 1 and its contact is a row
\* of the table; and every change of the table adds exactly one row, the
\* contact of the insert in execution, and alters no other row.
C4_SaveAddsOneRow ==
    /\ [](\A c \in Callers :
            (DoneSave(c) /\ result[c].tag = "Ok") =>
                (result[c].n = 1 /\ Stored(call[c].contact)))
    /\ [][store' # store =>
            \E r \in executing :
                /\ r.op = "insert"
                /\ r.id \notin DOMAIN store
                /\ DOMAIN store' = DOMAIN store \cup {r.id}
                /\ Cardinality(DOMAIN store') = Cardinality(DOMAIN store) + 1
                /\ RowContact(store'[r.id]) = r.contact
                /\ \A i \in DOMAIN store : store'[i] = store[i]]_vars

C4_Witness ==
    \E c \in Callers :
        /\ DoneSave(c)
        /\ result[c].tag = "Ok"
        /\ result[c].n = 1
        /\ Stored(call[c].contact)

\* C5: the process aborts only in new, on a failed connect: then no
\* repository exists, no task was spawned and no call was ever made; and
\* every get or save that has returned holds an Ok or an Err value.
C5_OnlyNewAborts ==
    /\ aborted =>
        /\ repo = "none"
        /\ connTask = "none"
        /\ issued = 0
        /\ \A c \in Callers : pc[c] = "idle"
    /\ \A c \in Callers : Done(c) => result[c].tag \in {"Ok", "Db", "Intern"}

C5_Witness == aborted /\ repo = "none" /\ connTask = "none"

\* C6: the step in which the connection task terminates writes one log line
\* and changes nothing a caller holds or awaits (no caller's position, call,
\* response or result, no abort, the same repository); a closed-connection
\* Db error is held only once the task has terminated, and every call started
\* on the terminated task returns that Db error.
C6_TerminationOnlyLogged ==
    /\ [][(connTask = "running" /\ connTask' = "terminated") =>
            /\ log' = log + 1
            /\ pc' = pc
            /\ call' = call
            /\ resp' = resp
            /\ result' = result
            /\ aborted' = aborted
            /\ repo' = repo]_vars
    /\ [](\A c \in Callers :
            /\ (Done(c) /\ result[c].tag = "Db" /\ result[c].err = PgClosed)
                    => (connTask = "terminated" /\ log = 1)
            /\ (Done(c) /\ call[c].conn = "terminated")
                    => (result[c].tag = "Db" /\ result[c].err = PgClosed))

C6_Witness ==
    \E c \in Callers :
        /\ Done(c)
        /\ call[c].conn = "terminated"
        /\ result[c].tag = "Db"
        /\ log = 1

\* Statements of caller c that are sent or in execution.
InFlight(c) ==
    Cardinality({i \in 1..Len(queue) : queue[i].caller = c})
        + Cardinality({r \in executing : r.caller = c})

\* C7: the server executes at most one statement of the connection at a
\* time, and the results of concurrent saves are those of a sequential
\* order: of two returned saves of one id at most one is Ok, an Ok save's
\* contact is the stored row, and a save failed on the key has a stored row.
C7_Serialized ==
    /\ Cardinality(executing) <= 1
    /\ \A c, d \in Callers :
        (c # d /\ DoneSave(c) /\ DoneSave(d) /\ call[c].id = call[d].id) =>
            ~(result[c].tag = "Ok" /\ result[d].tag = "Ok")
    /\ \A c \in Callers :
        /\ (DoneSave(c) /\ result[c].tag = "Ok") => Stored(call[c].contact)
        /\ (DoneSave(c) /\ result[c].tag = "Db" /\ result[c].err = PgUniqueViolation)
                => call[c].id \in DOMAIN store

\* Two saves of the same id, both started when the id had no row: one Ok, the
\* other failed on the key.
C7_Witness ==
    \E c, d \in Callers :
        /\ c # d
        /\ DoneSave(c) /\ DoneSave(d)
        /\ call[c].id = call[d].id
        /\ call[c].pre = "absent" /\ call[d].pre = "absent"
        /\ call[c].contact # call[d].contact
        /\ result[c].tag = "Ok" /\ result[c].n = 1
        /\ result[d].tag = "Db" /\ result[d].err = PgUniqueViolation
        /\ Stored(call[c].contact)

\* C8: the not-found error's message is the text "no record with id "
\* followed by the decimal digits of the id the call was given.
C8_MessageNamesId ==
    \A c \in Callers :
        (DoneGet(c) /\ result[c].tag = "Intern") =>
            /\ Len(result[c].msg) >= 2
            /\ result[c].msg[1] = "no record with id "
            /\ \A k \in 2..Len(result[c].msg) : \E d \in 0..9 : Digit(d) = result[c].msg[k]
            /\ result[c].msg[2] # "0"
            /\ ParseDecimal(Tail(result[c].msg)) = call[c].id

\* get(12) on the empty table: "no record with id 12".
C8_Witness ==
    \E c \in Callers :
        /\ DoneGet(c)
        /\ call[c].id = 12
        /\ store = <<>>
        /\ result[c].tag = "Intern"
        /\ result[c].msg = <<"no record with id ", "1", "2">>

\* C9: a terminated connection task never runs again; a call has issued
\* exactly one statement attempt and has at most one statement in flight;
\* and every call started on the terminated task returns a Db error.
C9_NoRetryNoReconnect ==
    /\ [][connTask = "terminated" => connTask' = "terminated"]_vars
    /\ [](\A c \in Callers :
            /\ pc[c] # "idle" => call[c].attempts = 1
            /\ connTask = "running" =>
                    InFlight(c) = (IF pc[c] = "awaiting" /\ resp[c].kind = "none" THEN 1 ELSE 0)
            /\ (Done(c) /\ call[c].conn = "terminated") => result[c].tag = "Db")
    /\ [][\A c \in Callers : InFlight(c)' <= InFlight(c) + 1]_vars

C9_Witness ==
    \E c, d \in Callers :
        /\ connTask = "terminated"
        /\ DoneGet(c) /\ call[c].conn = "terminated" /\ result[c].tag = "Db"
        /\ DoneSave(d) /\ call[d].conn = "terminated" /\ result[d].tag = "Db"

\* A statement in execution is a select.
SelectExecuting == \E r \in executing : r.op = "select"

\* C10: executing a select leaves the table as it is; rows are never changed
\* or removed, and the table changes only while an insert executes; a get
\* that returned Ok returned the stored row; and a get repeated by a caller
\* whose last get of the id found nothing, after a save of the id returned
\* Ok, returns the saved contact unless the connection has failed.
C10_GetReadOnlyUncached ==
    /\ [][SelectExecuting => store' = store]_vars
    /\ [][/\ \A i \in DOMAIN store : i \in DOMAIN store' /\ store'[i] = store[i]
          /\ store' # store => \E r \in executing : r.op = "insert"]_vars
    /\ [](\A c \in Callers :
            /\ (DoneGet(c) /\ result[c].tag = "Ok") =>
                    (result[c].contact.id = call[c].id /\ Stored(result[c].contact))
            /\ (DoneGet(c) /\ call[c].again /\ call[c].known # NoContact
                    /\ result[c].tag # "Db") =>
                    (result[c].tag = "Ok" /\ result[c].contact = call[c].known))

C10_Witness ==
    \E c \in Callers :
        /\ DoneGet(c)
        /\ call[c].again
        /\ call[c].known # NoContact
        /\ result[c].tag = "Ok"
        /\ result[c].contact = call[c].known

====
